---------------------------- MODULE Spec2Model ----------------------------
(***************************************************************************)
(* A model of events.js of the quick reply menu extension: the style panel *)
(* (load / apply / reset), the picker <-> text field synchronisation, the  *)
(* colour codec (hexToRgba, rgbaToHex, getOpacityFromRgba) and the live    *)
(* CSS variables.                                                          *)
(*                                                                         *)
(* JavaScript strings are sequences of one-character strings, so that      *)
(* trimming, upper-casing, the regular expressions, parseInt, parseFloat   *)
(* and number formatting are computed character by character.  JavaScript  *)
(* values that need not be strings are tagged records (Str, Num, NaN,      *)
(* Null, Undefined).  Numbers are fixed-point: Num(n) is n / Scale.        *)
(***************************************************************************)
EXTENDS Integers, Sequences, FiniteSets, TLC

-----------------------------------------------------------------------------
(* Bounds of the model *)

\* fractional decimal digits a number of the model can carry
FracDigits == 3

\* triggerQuickReply calls that can be in flight together
MaxPending == 2

\* colour edits (picker and text events) in one behaviour
MaxEdits == 1

\* DOM elements that may be missing from the document
MaxMissing == 1

\* the slots 1..MaxEditSlot are the ones whose controls the user edits
MaxEditSlot == 2

-----------------------------------------------------------------------------
(* JavaScript values *)

Str(s) == [t |-> "string", s |-> s]
Num(n) == [t |-> "number", n |-> n]
NaN == [t |-> "NaN"]
Null == [t |-> "null"]
Undefined == [t |-> "undefined"]
Bool(b) == [t |-> "boolean", b |-> b]

IsStr(v) == v.t = "string"

RECURSIVE Pow10(_)
Pow10(k) == IF k = 0 THEN 1 ELSE 10 * Pow10(k - 1)

Scale == Pow10(FracDigits)

-----------------------------------------------------------------------------
(* Characters *)

LowerLetters == <<"a","b","c","d","e","f","g","h","i","j","k","l","m",
                  "n","o","p","q","r","s","t","u","v","w","x","y","z">>
UpperLetters == <<"A","B","C","D","E","F","G","H","I","J","K","L","M",
                  "N","O","P","Q","R","S","T","U","V","W","X","Y","Z">>
Digits == <<"0","1","2","3","4","5","6","7","8","9">>

DigitSet == {Digits[i] : i \in 1..10}
DigitValue == [c \in DigitSet |-> (CHOOSE i \in 1..10 : Digits[i] = c) - 1]
UpperMap == [c \in {LowerLetters[i] : i \in 1..26} |->
               UpperLetters[CHOOSE i \in 1..26 : LowerLetters[i] = c]]
LowerMap == [c \in {UpperLetters[i] : i \in 1..26} |->
               LowerLetters[CHOOSE i \in 1..26 : UpperLetters[i] = c]]
\* [0-9A-F] under the i flag
HexDigitSet == DigitSet \cup {LowerLetters[i] : i \in 1..6}
                 \cup {UpperLetters[i] : i \in 1..6}
HexDigitValue == [c \in HexDigitSet |->
                    IF c \in DigitSet THEN DigitValue[c]
                    ELSE 9 + (CHOOSE i \in 1..6 :
                                LowerLetters[i] = c \/ UpperLetters[i] = c)]
\* \s and the white space String.prototype.trim removes
SpaceSet == {" ", "\t", "\n"}
\* [0-9.]
AlphaCharSet == DigitSet \cup {"."}

DigitVal(c) == DigitValue[c]
UpperChar(c) == IF c \in DOMAIN UpperMap THEN UpperMap[c] ELSE c
LowerChar(c) == IF c \in DOMAIN LowerMap THEN LowerMap[c] ELSE c
IsHexDigit(c) == c \in HexDigitSet
HexVal(c) == HexDigitValue[c]

\* the character at i, "" outside the string
At(s, i) == IF i \in 1..Len(s) THEN s[i] ELSE ""

\* Body of the value of x: x is evaluated once, however often Body uses it
With(x, Body(_)) == CHOOSE r \in {Body(v) : v \in {x}} : TRUE

RECURSIVE RunEndFrom(_, _, _)
\* the end of the longest run of characters of the class C that starts at i
\* (i - 1 when the run is empty)
RunEndFrom(s, i, C) ==
  IF i <= Len(s) /\ s[i] \in C THEN RunEndFrom(s, i + 1, C) ELSE i - 1

-----------------------------------------------------------------------------
(* String methods *)

toUpperCase(s) == With(s, LAMBDA v : [i \in 1..Len(v) |-> UpperChar(v[i])])
toLowerCase(s) == With(s, LAMBDA v : [i \in 1..Len(v) |-> LowerChar(v[i])])

RECURSIVE LastNonSpace(_, _)
LastNonSpace(s, i) ==
  IF i >= 1 /\ s[i] \in SpaceSet THEN LastNonSpace(s, i - 1) ELSE i

trim(s) ==
  With(s, LAMBDA v : SubSeq(v, RunEndFrom(v, 1, SpaceSet) + 1,
                            LastNonSpace(v, Len(v))))

startsWithHash(s) == At(s, 1) = "#"

RECURSIVE IndexOfFrom(_, _, _)
\* the first position >= i of s that holds c, 0 when there is none
IndexOfFrom(s, c, i) ==
  IF i > Len(s) THEN 0
  ELSE IF s[i] = c THEN i ELSE IndexOfFrom(s, c, i + 1)

\* hex.replace('#', ''): the first '#' removed
replaceHash(s) ==
  With(<<s, IndexOfFrom(s, "#", 1)>>, LAMBDA a :
    IF a[2] = 0 THEN a[1]
    ELSE SubSeq(a[1], 1, a[2] - 1) \o SubSeq(a[1], a[2] + 1, Len(a[1])))

\* s.substring(a, b) for 0 <= a <= b, zero-based, b exclusive
substring(s, a, b) ==
  With(s, LAMBDA v :
    SubSeq(v, (IF a > Len(v) THEN Len(v) ELSE a) + 1,
              IF b > Len(v) THEN Len(v) ELSE b))

-----------------------------------------------------------------------------
(* Numbers *)

RECURSIVE DecValueTo(_, _)
DecValueTo(s, n) ==
  IF n = 0 THEN 0 ELSE 10 * DecValueTo(s, n - 1) + DigitVal(s[n])

\* the value of a string of decimal digits
DecValue(s) == With(s, LAMBDA v : DecValueTo(v, Len(v)))

RECURSIVE HexValueTo(_, _)
\* the value of the first n characters of s, hexadecimal digits
HexValueTo(s, n) ==
  IF n = 0 THEN 0 ELSE 16 * HexValueTo(s, n - 1) + HexVal(s[n])

RECURSIVE DecStringOf(_)
DecStringOf(n) ==
  IF n < 10 THEN <<Digits[n + 1]>>
  ELSE DecStringOf(n \div 10) \o <<Digits[(n % 10) + 1]>>

\* Number.prototype.toString(10) of a natural number
DecString(n) == With(n, LAMBDA v : DecStringOf(v))

HexDigits == <<"0","1","2","3","4","5","6","7","8","9","a","b","c","d","e","f">>

RECURSIVE HexStringOf(_)
HexStringOf(n) ==
  IF n < 16 THEN <<HexDigits[n + 1]>>
  ELSE HexStringOf(n \div 16) \o <<HexDigits[(n % 16) + 1]>>

\* Number.prototype.toString(16) of a natural number
HexString(n) == With(n, LAMBDA v : HexStringOf(v))

\* s.padStart(2, '0')
padStart2(s) ==
  With(s, LAMBDA v : IF Len(v) = 0 THEN <<"0","0">>
                     ELSE IF Len(v) = 1 THEN <<"0">> \o v ELSE v)

\* the fixed-point value of the fraction digits f (digits past FracDigits are
\* dropped: the inputs of the model carry at most FracDigits of them)
FracValue(f) ==
  With(f, LAMBDA v :
    With(IF Len(v) > FracDigits THEN FracDigits ELSE Len(v), LAMBDA n :
      DecValueTo(v, n) * Pow10(FracDigits - n)))

\* parseInt(s, 16): the longest prefix of hexadecimal digits, NaN when empty
parseIntHex(s) ==
  With(s, LAMBDA v :
    With(RunEndFrom(v, 1, HexDigitSet), LAMBDA e :
      IF e = 0 THEN NaN ELSE Num(HexValueTo(v, e) * Scale)))

\* parseInt(s) of a string of decimal digits
parseIntDec(s) ==
  With(s, LAMBDA v :
    With(RunEndFrom(v, 1, DigitSet), LAMBDA e :
      IF e = 0 THEN NaN ELSE Num(DecValueTo(v, e) * Scale)))

\* the number digits [. digits] read from the start of s, NaN when it holds
\* no digit; rest: the position after it
UnsignedDecimal(s) ==
  With(s, LAMBDA v :
    With(RunEndFrom(v, 1, DigitSet), LAMBDA e :
      With(IF At(v, e + 1) = "." THEN RunEndFrom(v, e + 2, DigitSet) ELSE e,
           LAMBDA f :
        [n |-> IF e = 0 /\ f < e + 2 THEN NaN
               ELSE Num(DecValueTo(v, e) * Scale + FracValue(SubSeq(v, e + 2, f))),
         rest |-> f + 1])))

\* parseFloat(s) of an unsigned string: the longest prefix digits [. digits]
\* holding at least one digit, NaN when there is none
parseFloat(s) == UnsignedDecimal(s).n

\* ToNumber of a string (the coercion of a relational operator): white space
\* trimmed, "" is 0, then [+-] digits [. digits] or [+-] . digits, the whole
\* string consumed; anything else NaN (exponents, hexadecimal literals and
\* Infinity are not among the inputs of the model)
StringToNumber(s) ==
  With(trim(s), LAMBDA u :
    With(IF At(u, 1) \in {"+", "-"} THEN SubSeq(u, 2, Len(u)) ELSE u,
         LAMBDA body :
      With(UnsignedDecimal(body), LAMBDA d :
        IF Len(u) = 0 THEN Num(0)
        ELSE IF d.n.t = "NaN" \/ d.rest # Len(body) + 1 THEN NaN
        ELSE Num(IF At(u, 1) = "-" THEN 0 - d.n.n ELSE d.n.n))))

\* ToNumber of a value
ToNumber(v) ==
  With(v, LAMBDA x :
    CASE x.t = "number" -> x
      [] x.t = "string" -> StringToNumber(x.s)
      [] x.t = "null" -> Num(0)
      [] x.t = "boolean" -> Num(IF x.b THEN Scale ELSE 0)
      [] OTHER -> NaN)

RECURSIVE LastNonZero(_, _)
LastNonZero(s, i) ==
  IF i >= 1 /\ s[i] = "0" THEN LastNonZero(s, i - 1) ELSE i

\* the digits of a fraction f < Scale, without trailing zeros
FracString(f) ==
  With(DecString(f), LAMBDA d :
    With([i \in 1..(FracDigits - Len(d)) |-> "0"] \o d, LAMBDA z :
      SubSeq(z, 1, LastNonZero(z, Len(z)))))

\* Number::toString of a fixed-point number
NumberToString(n) ==
  With(n, LAMBDA v :
    With(IF v < 0 THEN 0 - v ELSE v, LAMBDA mag :
      With(FracString(mag % Scale), LAMBDA frac :
        (IF v < 0 THEN <<"-">> ELSE << >>)
        \o DecString(mag \div Scale)
        \o (IF Len(frac) = 0 THEN << >> ELSE <<".">> \o frac))))

\* ToString of a value, as a template literal or a DOM setter applies it
JSToString(v) ==
  With(v, LAMBDA x :
    CASE x.t = "string" -> x.s
      [] x.t = "number" -> NumberToString(x.n)
      [] x.t = "NaN" -> <<"N","a","N">>
      [] x.t = "null" -> <<"n","u","l","l">>
      [] x.t = "boolean" -> IF x.b THEN <<"t","r","u","e">>
                            ELSE <<"f","a","l","s","e">>
      [] OTHER -> <<"u","n","d","e","f","i","n","e","d">>)

\* ToBoolean of a value
Truthy(v) ==
  With(v, LAMBDA x :
    CASE x.t = "string" -> Len(x.s) > 0
      [] x.t = "number" -> x.n # 0
      [] x.t = "boolean" -> x.b
      [] OTHER -> FALSE)

\* Math.max(0, Math.min(1, x))
Clamp01(x) ==
  With(x, LAMBDA v :
    IF v.t = "NaN" THEN NaN
    ELSE Num(IF v.n < 0 THEN 0 ELSE IF v.n > Scale THEN Scale ELSE v.n))

\* Math.max(0, Math.min(255, x))
Clamp255(x) ==
  With(x, LAMBDA v :
    IF v.t = "NaN" THEN NaN
    ELSE Num(IF v.n < 0 THEN 0
             ELSE IF v.n > 255 * Scale THEN 255 * Scale ELSE v.n))

-----------------------------------------------------------------------------
(* String constants of the source *)

\* '#3c3c3c', hexToRgba's fallback colour and loadMenuStylesIntoPanel's
\* item background default
HEX_3C3C3C == <<"#","3","c","3","c","3","c">>
\* '#000000', rgbaToHex's fallback and the menu background default
HEX_000000 == <<"#","0","0","0","0","0","0">>
HEX_FFFFFF == <<"#","f","f","f","f","f","f">>
HEX_CCCCCC == <<"#","c","c","c","c","c","c">>
HEX_444444 == <<"#","4","4","4","4","4","4">>
HEX_666666 == <<"#","6","6","6","6","6","6">>
HEX_555555 == <<"#","5","5","5","5","5","5">>

\* the number literals 0.7, 0.85 and 1 of the source
Opacity07 == Num((7 * Scale) \div 10)
Opacity085 == Num((85 * Scale) \div 100)
Opacity1 == Num(Scale)

\* what a call that raises a TypeError yields
TypeError == [t |-> "TypeError"]

-----------------------------------------------------------------------------
(* The colour codec *)

\* /^#[0-9A-F]{6}$/i.test(s) for a string s
IsHex7(s) ==
  With(s, LAMBDA v :
    /\ Len(v) = 7
    /\ v[1] = "#"
    /\ \A i \in 2..7 : IsHexDigit(v[i]))

\* /^#?([0-9A-F]{6})$/i.test(s) for a string s
IsHexLoose(s) ==
  With(s, LAMBDA v :
    \/ IsHex7(v)
    \/ Len(v) = 6 /\ \A i \in 1..6 : IsHexDigit(v[i]))

\* /^#[0-9A-F]{6}$/i.test(v): the argument is converted to a string
TestHex7(v) == IsHex7(JSToString(v))

\* a variant of ValidHex that trusts every truthy argument to be a colour
ValidHexUnchecked(hex) ==
  IF ~Truthy(hex) THEN Str(HEX_3C3C3C) ELSE hex

\* the colour hexToRgba converts: hex, or the fallback '#3c3c3c'
ValidHex(hex) ==
  IF ~Truthy(hex) \/ ~TestHex7(hex) THEN Str(HEX_3C3C3C) ELSE hex

\* validOpacity of hexToRgba
ValidOpacity(opacity) ==
  With(ToNumber(opacity), LAMBDA n :
    IF /\ opacity.t # "null"
       /\ opacity.t # "undefined"
       /\ n.t = "number" /\ n.n >= 0 /\ n.n <= Scale
    THEN opacity ELSE Opacity07)

\* the string hexToRgba builds of the colour h and the opacity alpha; a
\* TypeError were hex.replace to be called on a value that is no string
RgbaString(h, alpha) ==
  IF ~IsStr(h) THEN TypeError
  ELSE With(replaceHash(h.s), LAMBDA x :
         Str(<<"r","g","b","a","(">>
             \o JSToString(parseIntHex(substring(x, 0, 2))) \o <<",", " ">>
             \o JSToString(parseIntHex(substring(x, 2, 4))) \o <<",", " ">>
             \o JSToString(parseIntHex(substring(x, 4, 6))) \o <<",", " ">>
             \o JSToString(alpha) \o <<")">>))

\* hexToRgba(hex, opacity): Str(the rgba string), or TypeError
hexToRgba(hex, opacity) ==
  With(<<hex, opacity>>, LAMBDA a :
    With(<<ValidHex(a[1]), ValidOpacity(a[2])>>, LAMBDA b :
      RgbaString(b[1], b[2])))

\* the tokens of /rgba?\((\d+),\s*(\d+),\s*(\d+)(?:,\s*([0-9.]+))?\)/ with
\* the optional group taken (alpha) or skipped; cap: a capturing group
Lit(c) == [kind |-> "lit", c |-> c]
RgbaTokens(alpha) ==
  <<Lit("r"), Lit("g"), Lit("b"), [kind |-> "opt", c |-> "a"], Lit("("),
    [kind |-> "plus", set |-> DigitSet, cap |-> TRUE], Lit(","),
    [kind |-> "star", set |-> SpaceSet, cap |-> FALSE],
    [kind |-> "plus", set |-> DigitSet, cap |-> TRUE], Lit(","),
    [kind |-> "star", set |-> SpaceSet, cap |-> FALSE],
    [kind |-> "plus", set |-> DigitSet, cap |-> TRUE]>>
  \o (IF alpha
      THEN <<Lit(","), [kind |-> "star", set |-> SpaceSet, cap |-> FALSE],
             [kind |-> "plus", set |-> AlphaCharSet, cap |-> TRUE]>>
      ELSE << >>)
  \o <<Lit(")")>>
RgbaTokensAlpha == RgbaTokens(TRUE)
RgbaTokensNoAlpha == RgbaTokens(FALSE)

NoMatch == [ok |-> FALSE, caps |-> << >>]

RECURSIVE MatchTokens(_, _, _, _)
\* the tokens k.. of toks matched against s from position st.p on, each run
\* taken greedily; st.caps: the groups captured so far
MatchTokens(s, st, toks, k) ==
  With(<<st, k>>, LAMBDA a :
    LET p == a[1].p
        caps == a[1].caps
        t == toks[a[2]]
        e == RunEndFrom(s, p, t.set)
    IN IF a[2] > Len(toks) THEN [ok |-> TRUE, caps |-> caps]
       ELSE IF t.kind = "lit"
       THEN IF At(s, p) = t.c
            THEN MatchTokens(s, [p |-> p + 1, caps |-> caps], toks, a[2] + 1)
            ELSE NoMatch
       ELSE IF t.kind = "opt"
       THEN MatchTokens(s, [p |-> IF At(s, p) = t.c THEN p + 1 ELSE p,
                            caps |-> caps], toks, a[2] + 1)
       ELSE IF t.kind = "plus" /\ e < p THEN NoMatch
       ELSE MatchTokens(s, [p |-> e + 1,
                            caps |-> IF t.cap THEN Append(caps, SubSeq(s, p, e))
                                     ELSE caps], toks, a[2] + 1))

\* one attempt of the expression at position p of s: first with the optional
\* group, then without it
RgbaMatchAt(s, p) ==
  With(MatchTokens(s, [p |-> p, caps |-> << >>], RgbaTokensAlpha, 1), LAMBDA m :
    IF m.ok THEN m
    ELSE MatchTokens(s, [p |-> p, caps |-> << >>], RgbaTokensNoAlpha, 1))

RECURSIVE RgbaMatchFrom(_, _)
RgbaMatchFrom(s, p) ==
  IF p > Len(s) THEN NoMatch
  ELSE With(<<p, RgbaMatchAt(s, p)>>, LAMBDA a :
         IF a[2].ok THEN a[2] ELSE RgbaMatchFrom(s, a[1] + 1))

\* rgba.match(...): the leftmost match; ok = FALSE for null, caps[1..3] the
\* channels, caps[4] the alpha when the optional group took part
RgbaMatch(s) == With(s, LAMBDA v : RgbaMatchFrom(v, 1))

\* a variant of Hex2 that does not pad the channel to two digits
Hex2Unpadded(n) == HexString(Clamp255(n).n \div Scale)

\* Math.max(0, Math.min(255, n)).toString(16).padStart(2, '0')
Hex2(n) == padStart2(HexString(Clamp255(n).n \div Scale))

\* rgbaToHex(rgba): always a string
rgbaToHex(rgba) ==
  With(rgba, LAMBDA v :
    IF ~Truthy(v) \/ ~IsStr(v) THEN HEX_000000
    ELSE With(RgbaMatch(v.s), LAMBDA m :
           IF ~m.ok
           THEN IF IsHex7(v.s) THEN toUpperCase(v.s) ELSE HEX_000000
           ELSE toUpperCase(<<"#">> \o Hex2(parseIntDec(m.caps[1]))
                            \o Hex2(parseIntDec(m.caps[2]))
                            \o Hex2(parseIntDec(m.caps[3])))))

\* a variant of getOpacityFromRgba that does not read the alpha
getOpacityFromRgbaOpaque(rgba) == Opacity1

\* getOpacityFromRgba(rgba): a number, NaN included
getOpacityFromRgba(rgba) ==
  With(rgba, LAMBDA v :
    IF ~Truthy(v) \/ ~IsStr(v) THEN Opacity1
    ELSE With(RgbaMatch(v.s), LAMBDA m :
           IF ~m.ok \/ Len(m.caps) < 4 THEN Opacity1
           ELSE Clamp01(parseFloat(m.caps[4]))))

-----------------------------------------------------------------------------
(* The document: element ids *)

\* An element id is <<base, suffix>>, so that picker.id.replace('-picker',
\* '-text') and pickerId + '-text' are computed on it.
ID_MENU_STYLE_PANEL == <<"ID_MENU_STYLE_PANEL", "">>
ID_MENU == <<"ID_MENU", "">>

\* the seven style slots: the key of menuStyles, the base of the picker and
\* text ids, the CSS variable, the default of loadMenuStylesIntoPanel and
\* applyMenuStyles, and the fallback of updateMenuStylesUI
Slots == <<
  [key |-> "itemBgColor", base |-> "qr-item-bgcolor", alpha |-> TRUE,
   opacity |-> "qr-item-opacity", css |-> "--qr-item-bg-color",
   hex |-> HEX_3C3C3C, op |-> Opacity07,
   fallback |-> <<"r","g","b","a","(","6","0",","," ","6","0",","," ","6","0",
                  ","," ","0",".","7",")">>],
  [key |-> "itemTextColor", base |-> "qr-item-color", alpha |-> FALSE,
   opacity |-> "", css |-> "--qr-item-text-color",
   hex |-> HEX_FFFFFF, op |-> Opacity1,
   fallback |-> <<"w","h","i","t","e">>],
  [key |-> "titleColor", base |-> "qr-title-color", alpha |-> FALSE,
   opacity |-> "", css |-> "--qr-title-color",
   hex |-> HEX_CCCCCC, op |-> Opacity1,
   fallback |-> <<"#","c","c","c">>],
  [key |-> "titleBorderColor", base |-> "qr-title-border", alpha |-> FALSE,
   opacity |-> "", css |-> "--qr-title-border-color",
   hex |-> HEX_444444, op |-> Opacity1,
   fallback |-> <<"#","4","4","4">>],
  [key |-> "emptyTextColor", base |-> "qr-empty-color", alpha |-> FALSE,
   opacity |-> "", css |-> "--qr-empty-text-color",
   hex |-> HEX_666666, op |-> Opacity1,
   fallback |-> <<"#","6","6","6">>],
  [key |-> "menuBgColor", base |-> "qr-menu-bgcolor", alpha |-> TRUE,
   opacity |-> "qr-menu-opacity", css |-> "--qr-menu-bg-color",
   hex |-> HEX_000000, op |-> Opacity085,
   fallback |-> <<"r","g","b","a","(","0",","," ","0",","," ","0",
                  ","," ","0",".","8","5",")">>],
  [key |-> "menuBorderColor", base |-> "qr-menu-border", alpha |-> FALSE,
   opacity |-> "", css |-> "--qr-menu-border-color",
   hex |-> HEX_555555, op |-> Opacity1,
   fallback |-> <<"#","5","5","5">>] >>

SlotIndex == 1..Len(Slots)
AlphaIndex == {i \in SlotIndex : Slots[i].alpha}
SlotKeys == {Slots[i].key : i \in SlotIndex}
CssNames == {Slots[i].css : i \in SlotIndex}

PickerId(i) == <<Slots[i].base, "-picker">>
TextId(i) == <<Slots[i].base, "-text">>
SliderId(i) == <<Slots[i].opacity, "">>
DisplayId(i) == <<Slots[i].opacity, "-value">>

\* picker.id.replace('-picker', '-text')
replacePickerByText(id) == <<id[1], IF id[2] = "-picker" THEN "-text" ELSE id[2]>>
\* pickerId + '-text'
appendText(id) == <<id[1], id[2] \o "-text">>

InputIds == {PickerId(i) : i \in SlotIndex} \cup {TextId(i) : i \in SlotIndex}
              \cup {SliderId(i) : i \in AlphaIndex}
SpanIds == {DisplayId(i) : i \in AlphaIndex}
\* the elements the document is expected to hold
AllIds == InputIds \cup SpanIds \cup {ID_MENU_STYLE_PANEL, ID_MENU}

\* Constants.DEFAULT_MENU_STYLES
DEFAULT_MENU_STYLES == [k \in SlotKeys |->
  LET i == CHOOSE j \in SlotIndex : Slots[j].key = k
  IN IF Slots[i].alpha THEN Str(Slots[i].fallback) ELSE Str(Slots[i].hex)]

-----------------------------------------------------------------------------
(* State *)

VARIABLES
  settings,      \* extension_settings[EXTENSION_NAME]: whether menuStyles is
                 \* set, and the object it holds (key -> value)
  elements,      \* the ids of the elements the document holds
  typedInputs,   \* whether the pickers and sliders are <input type=color> and
                 \* <input type=range>, which sanitise a value assigned to
                 \* them, or plain holders of the assigned string
  value,         \* element.value of every input
  textContent,   \* element.textContent of the opacity displays
  panelDisplay,  \* stylePanel.style.display
  cssVars,       \* the custom properties of document.documentElement.style
  persisted,     \* history: settings as they were persisted at start-up
  mutated,       \* history: whether applyMenuStyles or resetMenuStyles has run
  defaults,      \* the contents of the object Constants.DEFAULT_MENU_STYLES
  shared,        \* whether settings.menuStyles is that very object
  last,          \* history: the last operation (of an open, whether it
                 \* followed applyMenuStyles; of an apply, whether it
                 \* followed such an open)
  edits,         \* history: the number of user edits so far
  arg,           \* the arguments of a codec call
  ret,           \* the result of a codec call
  pc,            \* the statement a running applyMenuStyles has reached: 0
                 \* when none runs, i when it is about to assign slot i,
                 \* then 8 (delete), 9 (render) and 10 (close)
  log,           \* history: what that invocation has done so far, in order
  menuVisible,   \* sharedState.menuVisible
  domElements,   \* whether sharedState.domElements holds menu, rocketButton
  click,         \* the click being dispatched: its target, the data
                 \* attributes of a clicked item, the handlers it has yet to
                 \* reach; and, as history, the visibility it found, the
                 \* changes of visibility since, and what ran last
  pending        \* the handleQuickReplyClick invocations awaiting their
                 \* triggerQuickReply

vars == <<settings, elements, typedInputs, value, textContent, panelDisplay,
          cssVars, persisted, mutated, defaults, shared, last, edits,
          arg, ret, pc, log, menuVisible, domElements, click, pending>>

traceVars == <<pc, log>>

menuVars == <<menuVisible, domElements, click, pending>>

panelVars == <<settings, elements, typedInputs, value, textContent,
               panelDisplay, cssVars, persisted, mutated, defaults, shared,
               last, edits>>

\* styles.key: undefined when the object has no such key
Get(obj, k) == IF k \in DOMAIN obj THEN obj[k] ELSE Undefined

\* JSON.parse(JSON.stringify(obj)) of an object of strings: a fresh object
\* with the same keys and values
DeepCopy(obj) == [k \in DOMAIN obj |-> obj[k]]

-----------------------------------------------------------------------------
(* The document: controls *)

IsPicker(id) == id[2] = "-picker"
IsSlider(id) == id \in {SliderId(i) : i \in AlphaIndex}

\* the string an input holds after element.value = v
SetValue(id, v) ==
  With(JSToString(v), LAMBDA s :
    IF typedInputs /\ IsPicker(id)
    THEN IF IsHex7(s) THEN toLowerCase(s) ELSE HEX_000000
    ELSE IF typedInputs /\ IsSlider(id)
    THEN With(StringToNumber(s), LAMBDA n :
           IF Len(s) = 0 \/ n.t = "NaN" THEN <<"0", ".", "5">>
           ELSE IF n.n < 0 \/ n.n > Scale THEN NumberToString(Clamp01(n).n)
           ELSE s)
    ELSE s)

\* safeSetValue of loadMenuStylesIntoPanel, on the values vals
safeSetValue(vals, id, v) ==
  IF id \in elements THEN [vals EXCEPT ![id] = SetValue(id, v)] ELSE vals

\* safeSetText of loadMenuStylesIntoPanel, on the texts txts
safeSetText(txts, id, v) ==
  IF id \in elements THEN [txts EXCEPT ![id] = JSToString(v)] ELSE txts

\* a variant of safeGetValue that takes the element for granted
safeGetValueUnchecked(id, defaultValue) == Str(value[id])

\* safeGetValue of applyMenuStyles
safeGetValue(id, defaultValue) ==
  IF id \in elements THEN Str(value[id]) ELSE defaultValue

-----------------------------------------------------------------------------
(* loadMenuStylesIntoPanel *)

\* a variant of LoadedColor that shows the default whatever the slot holds
LoadedColorDefault(i, styles) == Str(Slots[i].hex)

\* the colour loadMenuStylesIntoPanel shows for plain slot i
LoadedColor(i, styles) ==
  IF Truthy(Get(styles, Slots[i].key)) THEN Get(styles, Slots[i].key)
  ELSE Str(Slots[i].hex)

\* whether the statements of slot i end loadMenuStylesIntoPanel with a
\* TypeError (toUpperCase of a value that is no string)
LoadThrows(i, styles) == ~Slots[i].alpha /\ ~IsStr(LoadedColor(i, styles))

\* the inputs' values after the statements of loadMenuStylesIntoPanel for
\* slot i (up to the TypeError, if they raise one)
LoadValues(vals, i, styles) ==
  LET v == Get(styles, Slots[i].key)
      wellTyped == Truthy(v) /\ IsStr(v)
      hex == IF wellTyped THEN rgbaToHex(v) ELSE Slots[i].hex
      opacity == IF wellTyped THEN getOpacityFromRgba(v) ELSE Slots[i].op
      color == LoadedColor(i, styles)
  IN IF Slots[i].alpha
     THEN safeSetValue(
            safeSetValue(
              safeSetValue(vals, PickerId(i), Str(hex)),
              TextId(i), Str(toUpperCase(hex))),
            SliderId(i), opacity)
     ELSE IF ~IsStr(color)
     THEN safeSetValue(vals, PickerId(i), color)
     ELSE safeSetValue(
            safeSetValue(vals, PickerId(i), color),
            TextId(i), Str(toUpperCase(color.s)))

\* a variant of LoadTexts that leaves the displays as they are
LoadTextsKept(txts, i, styles) == txts

\* the displays' texts after the statements of loadMenuStylesIntoPanel for
\* slot i
LoadTexts(txts, i, styles) ==
  LET v == Get(styles, Slots[i].key)
      wellTyped == Truthy(v) /\ IsStr(v)
      opacity == IF wellTyped THEN getOpacityFromRgba(v) ELSE Slots[i].op
  IN IF Slots[i].alpha THEN safeSetText(txts, DisplayId(i), opacity) ELSE txts

RECURSIVE LoadFrom(_, _, _, _)
\* the statements of slots i.. of loadMenuStylesIntoPanel: the controls
\* afterwards, and whether a TypeError ended the function
LoadFrom(vals, txts, i, styles) ==
  IF i > Len(Slots) THEN [value |-> vals, textContent |-> txts, threw |-> FALSE]
  ELSE IF LoadThrows(i, styles)
  THEN [value |-> LoadValues(vals, i, styles), textContent |-> txts, threw |-> TRUE]
  ELSE LoadFrom(LoadValues(vals, i, styles), LoadTexts(txts, i, styles),
                i + 1, styles)

\* loadMenuStylesIntoPanel() with settings s: the controls afterwards
loadMenuStylesIntoPanel(s) ==
  LoadFrom(value, textContent, 1,
           IF s.hasMenuStyles THEN s.menuStyles ELSE DeepCopy(defaults))

-----------------------------------------------------------------------------
(* updateMenuStylesUI *)

\* a variant of updateMenuStylesUI that always renders the fallbacks
updateMenuStylesUIFallbacks(s) ==
  IF ID_MENU \notin elements THEN cssVars
  ELSE [c \in CssNames |->
          LET i == CHOOSE j \in SlotIndex : Slots[j].css = c
          IN Str(Slots[i].fallback)]

\* updateMenuStylesUI() with settings s: the custom properties afterwards
updateMenuStylesUI(s) ==
  LET styles == IF s.hasMenuStyles THEN s.menuStyles ELSE defaults
  IN IF ID_MENU \notin elements THEN cssVars
     ELSE [c \in CssNames |->
             LET i == CHOOSE j \in SlotIndex : Slots[j].css = c
                 v == Get(styles, Slots[i].key)
             IN Str(IF Truthy(v) THEN JSToString(v) ELSE Slots[i].fallback)]

-----------------------------------------------------------------------------
(* applyMenuStyles and resetMenuStyles *)

\* getColorValue(pickerId) of applyMenuStyles
getColorValue(pickerId) ==
  LET textInput == appendText(pickerId)
  IN IF textInput \in elements /\ IsHex7(value[textInput])
     THEN Str(value[textInput])
     ELSE safeGetValue(pickerId, Null)

\* a variant of AppliedValue that stores every colour as the control holds it
AppliedValueBare(i) ==
  IF Truthy(getColorValue(PickerId(i)))
  THEN getColorValue(PickerId(i))
  ELSE Str(Slots[i].hex)

\* the value applyMenuStyles stores in slot i
AppliedValue(i) ==
  IF Slots[i].alpha
  THEN hexToRgba(getColorValue(PickerId(i)), safeGetValue(SliderId(i), Slots[i].op))
  ELSE IF Truthy(getColorValue(PickerId(i)))
       THEN getColorValue(PickerId(i))
       ELSE Str(Slots[i].hex)

\* a variant of MenuStylesAfterApply that keeps the legacy key
MenuStylesAfterApplyKeepLegacy(s) ==
  LET before == IF s.hasMenuStyles THEN s.menuStyles
                ELSE DeepCopy(defaults)
  IN [k \in DOMAIN before \cup SlotKeys |->
        IF k \in SlotKeys
        THEN AppliedValue(CHOOSE i \in SlotIndex : Slots[i].key = k)
        ELSE before[k]]

\* settings.menuStyles when applyMenuStyles has assigned the seven slots and
\* deleted followTheme
MenuStylesAfterApply(s) ==
  LET before == IF s.hasMenuStyles THEN s.menuStyles
                ELSE DeepCopy(defaults)
  IN [k \in (DOMAIN before \cup SlotKeys) \ {"followTheme"} |->
        IF k \in SlotKeys
        THEN AppliedValue(CHOOSE i \in SlotIndex : Slots[i].key = k)
        ELSE before[k]]

\* a variant of closeMenuStylePanel that leaves the panel as it is
closeMenuStylePanelKeep == panelDisplay

\* closeMenuStylePanel(): stylePanel.style.display afterwards
closeMenuStylePanel ==
  IF ID_MENU_STYLE_PANEL \in elements THEN "none" ELSE panelDisplay

\* a variant of JsonCopyShares: the copy is the object itself
JsonCopySharesAlways == TRUE

\* whether the object JSON.parse(JSON.stringify(obj)) returns is obj itself
JsonCopyShares == FALSE

\* whether the object applyMenuStyles writes the slots to is the constant's
SharedAtApply == IF settings.hasMenuStyles THEN shared ELSE JsonCopyShares

ApplyMenuStyles ==
  /\ settings' = [hasMenuStyles |-> TRUE,
                  menuStyles |-> MenuStylesAfterApply(settings)]
  /\ shared' = SharedAtApply
  /\ defaults' = IF SharedAtApply THEN settings'.menuStyles ELSE defaults
  /\ cssVars' = updateMenuStylesUI(settings')
  /\ panelDisplay' = closeMenuStylePanel
  /\ mutated' = TRUE
  /\ last' = [op |-> "apply",
              again |-> last.op = "open" /\ last.applied]
  /\ UNCHANGED <<elements, typedInputs, value, textContent, persisted,
                 edits, arg, ret, traceVars, menuVars>>

ResetMenuStyles ==
  /\ settings' = [hasMenuStyles |-> TRUE,
                  menuStyles |-> DeepCopy(defaults)]
  /\ shared' = JsonCopyShares
  /\ defaults' = defaults
  /\ \E loaded \in {loadMenuStylesIntoPanel(settings')} :
       /\ value' = loaded.value
       /\ textContent' = loaded.textContent
       /\ cssVars' = IF loaded.threw THEN cssVars ELSE updateMenuStylesUI(settings')
       /\ last' = [op |-> "reset", threw |-> loaded.threw]
  /\ mutated' = TRUE
  /\ UNCHANGED <<elements, typedInputs, panelDisplay, persisted, edits,
                 arg, ret, traceVars, menuVars>>

-----------------------------------------------------------------------------
(* The panel *)

\* a variant of SettingsAfterLoad that stores the styles it has resolved
SettingsAfterLoadStored(s) ==
  [hasMenuStyles |-> TRUE,
   menuStyles |-> IF s.hasMenuStyles THEN s.menuStyles ELSE DeepCopy(defaults)]

\* the settings when loadMenuStylesIntoPanel has bound its local styles:
\* settings.menuStyles is read, not assigned
SettingsAfterLoad(s) == s

HandleMenuStyleButtonClick ==
  /\ settings' = IF ID_MENU_STYLE_PANEL \in elements
                 THEN SettingsAfterLoad(settings) ELSE settings
  /\ IF ID_MENU_STYLE_PANEL \in elements
     THEN \E loaded \in {loadMenuStylesIntoPanel(settings)} :
            /\ value' = loaded.value
            /\ textContent' = loaded.textContent
            /\ panelDisplay' = IF loaded.threw THEN panelDisplay ELSE "block"
            /\ last' = [op |-> "open", threw |-> loaded.threw,
                        applied |-> last.op = "apply"]
     ELSE /\ UNCHANGED <<value, textContent, panelDisplay>>
          /\ last' = [op |-> "open", threw |-> FALSE,
                     applied |-> last.op = "apply"]
  /\ UNCHANGED <<elements, typedInputs, cssVars, persisted, mutated,
                 edits, defaults, shared,
                 arg, ret, traceVars, menuVars>>

CloseMenuStylePanel ==
  /\ panelDisplay' = closeMenuStylePanel
  /\ last' = [op |-> "close"]
  /\ UNCHANGED <<settings, elements, typedInputs, value, textContent, cssVars,
                 persisted, mutated, edits, defaults, shared,
                 arg, ret, traceVars, menuVars>>

\* updateMenuStylesUI() called on its own
UpdateMenuStylesUI ==
  /\ cssVars' = updateMenuStylesUI(settings)
  /\ last' = [op |-> "render"]
  /\ UNCHANGED <<settings, elements, typedInputs, value, textContent,
                 panelDisplay, persisted, mutated, edits, defaults, shared,
                 arg, ret, traceVars, menuVars>>

-----------------------------------------------------------------------------
(* setupColorPickerSync and the opacity sliders' listeners *)

\* the picker's 'input' listener: the text control's value afterwards
pickerInputListener(pickerValue) == toUpperCase(pickerValue)

\* a variant of the text 'input' listener that does not trim the text
textInputListenerNoTrim(i, pickerValue, textValue) ==
  LET v == textValue
      color == IF startsWithHash(v) THEN v ELSE <<"#">> \o v
  IN IF IsHexLoose(v)
     THEN [picker |-> SetValue(PickerId(i), Str(color)), text |-> toUpperCase(color)]
     ELSE [picker |-> pickerValue, text |-> textValue]

\* the text control's 'input' listener of pair i: both values afterwards
textInputListener(i, pickerValue, textValue) ==
  LET v == trim(textValue)
      color == IF startsWithHash(v) THEN v ELSE <<"#">> \o v
  IN IF IsHexLoose(v)
     THEN [picker |-> SetValue(PickerId(i), Str(color)), text |-> toUpperCase(color)]
     ELSE [picker |-> pickerValue, text |-> textValue]

\* a variant of the text 'change' listener that keeps an invalid text
textChangeListenerNoRevert(i, pickerValue, textValue) ==
  LET v == trim(textValue)
      color == IF startsWithHash(v) THEN v ELSE <<"#">> \o v
  IN IF IsHexLoose(v)
     THEN [picker |-> SetValue(PickerId(i), Str(color)), text |-> toUpperCase(color)]
     ELSE [picker |-> pickerValue, text |-> textValue]

\* the text control's 'change' listener of pair i: both values afterwards
textChangeListener(i, pickerValue, textValue) ==
  LET v == trim(textValue)
      color == IF startsWithHash(v) THEN v ELSE <<"#">> \o v
  IN IF IsHexLoose(v)
     THEN [picker |-> SetValue(PickerId(i), Str(color)), text |-> toUpperCase(color)]
     ELSE [picker |-> pickerValue, text |-> toUpperCase(pickerValue)]

\* whether setupColorPickerSync has bound pair i
Bound(i) == PickerId(i) \in elements /\ replacePickerByText(PickerId(i)) \in elements

\* setupColorPickerSync(): the values after every bound text control is
\* seeded from its picker
setupColorPickerSync(vals) ==
  [id \in DOMAIN vals |->
     IF \E i \in SlotIndex : Bound(i) /\ id = TextId(i)
     THEN toUpperCase(vals[PickerId(CHOOSE i \in SlotIndex : id = TextId(i))])
     ELSE vals[id]]

\* the colours the user picks
PickerColors == {<<"#","f","f","0","0","f","f">>, <<"#","0","a","1","4","1","e">>}

\* the texts the user types: six digits without '#', a mixed-case colour in
\* white space, a partial colour
TextInputs == {<<"f","f","0","0","f","f">>,
               <<" ","#","0","A","1","4","1","e"," ">>,
               <<"#","f","f","0">>}

\* the position the user drags an opacity slider to
SliderValues == {<<"0",".","9">>}

\* the slots whose controls the user edits
EditSlots == {i \in SlotIndex : i <= MaxEditSlot}

\* the colour edits a behaviour may hold: one fewer for every element the
\* document misses
EditBudget == MaxEdits - Cardinality(AllIds \ elements)

\* the user reaches the controls of the panel only while it is shown
PanelVisible == panelDisplay = "block"

\* the user picks colour c in picker i
PickerInput(i, c) ==
  /\ edits < EditBudget
  /\ PanelVisible
  /\ PickerId(i) \in elements
  /\ value' = [value EXCEPT ![PickerId(i)] = c,
                            ![TextId(i)] = IF Bound(i) THEN pickerInputListener(c)
                                           ELSE @]
  /\ edits' = edits + 1
  /\ last' = [op |-> "pickerInput", i |-> i]
  /\ UNCHANGED <<settings, elements, typedInputs, textContent, panelDisplay,
                 cssVars, persisted, mutated, defaults, shared,
                 arg, ret, traceVars, menuVars>>

\* the user leaves the text s in text control i
TextInput(i, s) ==
  /\ edits < EditBudget
  /\ PanelVisible
  /\ TextId(i) \in elements
  /\ IF Bound(i)
     THEN \E after \in {textInputListener(i, value[PickerId(i)], s)} :
            value' = [value EXCEPT ![PickerId(i)] = after.picker,
                                   ![TextId(i)] = after.text]
     ELSE value' = [value EXCEPT ![TextId(i)] = s]
  /\ edits' = edits + 1
  /\ last' = [op |-> "textInput", i |-> i, typed |-> s]
  /\ UNCHANGED <<settings, elements, typedInputs, textContent, panelDisplay,
                 cssVars, persisted, mutated, defaults, shared,
                 arg, ret, traceVars, menuVars>>

\* text control i commits (loses focus)
TextChange(i) ==
  /\ Bound(i)
  /\ PanelVisible
  /\ \E after \in {textChangeListener(i, value[PickerId(i)], value[TextId(i)])} :
       value' = [value EXCEPT ![PickerId(i)] = after.picker,
                              ![TextId(i)] = after.text]
  /\ last' = [op |-> "textChange", i |-> i,
              valid |-> IsHexLoose(trim(value[TextId(i)]))]
  /\ UNCHANGED <<settings, elements, typedInputs, textContent, panelDisplay,
                 cssVars, persisted, mutated, edits, defaults, shared,
                 arg, ret, traceVars, menuVars>>

\* a variant of sliderInputListener that leaves the display as it is
sliderInputListenerMute(i, v) == textContent

\* the input listener of opacity slider i, the slider at v: the displays'
\* texts afterwards
sliderInputListener(i, v) ==
  IF DisplayId(i) \in elements
  THEN [textContent EXCEPT ![DisplayId(i)] = v]
  ELSE textContent

\* the user drags opacity slider i to v
SliderInput(i, v) ==
  /\ PanelVisible
  /\ SliderId(i) \in elements
  /\ value' = [value EXCEPT ![SliderId(i)] = v]
  /\ textContent' = sliderInputListener(i, v)
  /\ last' = [op |-> "sliderInput", i |-> i]
  /\ UNCHANGED <<settings, elements, typedInputs, panelDisplay, cssVars,
                 persisted, mutated, edits, defaults, shared,
                 arg, ret, traceVars, menuVars>>

-----------------------------------------------------------------------------
(* The persisted settings and the document at start-up *)

RGBA_10_20_30_05 == <<"r","g","b","a","(","1","0",",","2","0",",","3","0",
                      ",","0",".","5",")">>

\* what the host may have persisted: nothing; the defaults; one slot only;
\* the defaults of a version that still wrote followTheme; an alpha slot as
\* bare hex, a plain slot and an alpha slot without alpha
PersistedSettings ==
  { [hasMenuStyles |-> FALSE, menuStyles |-> << >>],
    [hasMenuStyles |-> TRUE, menuStyles |-> DeepCopy(DEFAULT_MENU_STYLES)],
    [hasMenuStyles |-> TRUE,
     menuStyles |-> [k \in {"itemBgColor"} |-> Str(RGBA_10_20_30_05)]],
    [hasMenuStyles |-> TRUE,
     menuStyles |-> [k \in SlotKeys \cup {"followTheme"} |->
                       IF k = "followTheme" THEN Bool(TRUE)
                       ELSE DEFAULT_MENU_STYLES[k]]],
    [hasMenuStyles |-> TRUE,
     menuStyles |-> [k \in {"itemBgColor", "titleColor", "menuBgColor"} |->
                       IF k = "itemBgColor" THEN Str(<<"#","0","A","1","4","1","E">>)
                       ELSE IF k = "titleColor" THEN Str(<<"#","F","F","8","8","0","0">>)
                       ELSE Str(<<"r","g","b","(","1",","," ","2",","," ","3",")">>)]] }

\* the elements a document may lack: the panel, the menu root and the
\* controls of the first slot
OptionalIds ==
  {ID_MENU_STYLE_PANEL, ID_MENU, PickerId(1), TextId(1), SliderId(1), DisplayId(1)}

RECURSIVE MissingSets(_)
\* the sets of at most k optional elements
MissingSets(k) ==
  IF k = 0 THEN {{}}
  ELSE LET smaller == MissingSets(k - 1)
       IN smaller \cup {m \cup {x} : m \in smaller, x \in OptionalIds}

\* the values the inputs hold as the page is built: the pickers black, the
\* text controls empty, the sliders in the middle of their range
HtmlValues ==
  [id \in InputIds |->
     IF IsPicker(id) THEN HEX_000000
     ELSE IF IsSlider(id) THEN <<"0",".","5">>
     ELSE << >>]

NoCall == [fn |-> "none"]

\* the menu closed, both its elements found, no click under way and no
\* quick reply triggered
MenuIdle ==
  /\ menuVisible = FALSE
  /\ domElements = [menu |-> TRUE, rocketButton |-> TRUE]
  /\ click = [target |-> "none", data |-> [setName |-> FALSE, label |-> FALSE],
              handlers |-> << >>, before |-> FALSE, flips |-> 0,
              ran |-> "none"]
  /\ pending = 0

PanelInit ==
  /\ settings \in PersistedSettings
  /\ persisted = settings
  /\ mutated = FALSE
  /\ defaults = DEFAULT_MENU_STYLES
  /\ shared = FALSE
  /\ typedInputs \in BOOLEAN
  /\ value = setupColorPickerSync(HtmlValues)
  /\ textContent = [id \in SpanIds |-> <<"0",".","5">>]
  /\ panelDisplay = "none"
  /\ cssVars = [c \in CssNames |-> Undefined]
  /\ last = [op |-> "init"]
  /\ edits = 0
  /\ pc = 0
  /\ log = << >>

Init ==
  /\ elements \in {AllIds \ m : m \in MissingSets(MaxMissing)}
  /\ PanelInit
  /\ MenuIdle
  /\ arg = NoCall
  /\ ret = NoCall

Next ==
  \/ HandleMenuStyleButtonClick
  \/ CloseMenuStylePanel
  \/ UpdateMenuStylesUI
  \/ ApplyMenuStyles
  \/ ResetMenuStyles
  \/ \E i \in EditSlots, c \in PickerColors : PickerInput(i, c)
  \/ \E i \in EditSlots, s \in TextInputs : TextInput(i, s)
  \/ \E i \in EditSlots : TextChange(i)
  \/ \E i \in AlphaIndex \cap EditSlots, v \in SliderValues : SliderInput(i, v)

Spec == Init /\ [][Next]_vars

-----------------------------------------------------------------------------
(* The codec on its own: calls of the three functions on drawn arguments *)

\* the hex arguments: no value, no text, three digits, six digits without
\* '#', colours in either case, a wrong digit, white space, a digit too many,
\* values that are no strings
HexArgs ==
  { Null, Undefined, Bool(TRUE), Num(0),
    Str(<< >>), Str(<<"#","f","f","0">>), Str(<<"f","f","0","0","f","f">>),
    Str(<<"#","F","F","0","0","f","f">>), Str(<<"#","0","a","1","4","1","e">>),
    Str(HEX_3C3C3C), Str(<<"#","1","2","3","4","5","g">>),
    Str(<<" ","#","f","f","0","0","f","f">>),
    Str(<<"#","f","f","0","0","f","f","0">>) }

\* the opacity arguments: no value, numbers in and out of [0, 1], and the
\* strings a control may hold
OpacityArgs ==
  { Null, Undefined, NaN, Num(0), Num(Scale \div 2), Num(Scale),
    Num(Scale + Scale \div 2), Num(0 - Scale \div 10),
    Str(<< >>), Str(<<" ">>), Str(<<"a","b","c">>), Str(<<"0">>),
    Str(<<"0",".","5">>), Str(<<"0",".","9">>), Str(<<"1">>),
    Str(<<"1",".","5">>), Str(<<"-","0",".","1">>), Str(<<"0",".","5","0">>) }

\* the channels and alphas of the well-formed encoded colours
ChannelArgs == {<<10, 20, 30>>, <<255, 0, 255>>, <<0, 0, 0>>, <<1, 2, 3>>, <<60, 60, 60>>}
AlphaArgs == {<<"0">>, <<"1">>, <<"0",".","5">>, <<"0",".","8","5">>, <<"0",".","5","0">>}
GapArgs == {<< >>, <<" ">>}

\* rgba(r,g,b,a), gap after every comma
RgbaText(c, a, gap) ==
  <<"r","g","b","a","(">> \o DecString(c[1]) \o <<",">> \o gap
  \o DecString(c[2]) \o <<",">> \o gap \o DecString(c[3]) \o <<",">> \o gap
  \o a \o <<")">>

\* the encoded colours that are not of that form: rgb without alpha, a bare
\* colour, no text, a channel and an alpha out of range, a gap before a
\* comma, an alpha without a digit, and values that are no strings
OtherRgbaArgs ==
  { Str(<<"r","g","b","(","1",","," ","2",","," ","3",")">>),
    Str(<<"#","0","a","1","4","1","e">>), Str(<< >>),
    Str(<<"r","g","b","a","(","3","0","0",",","0",",","0",",","0",".","5",")">>),
    Str(<<"r","g","b","a","(","1",",","2",",","3",",","1",".","5",")">>),
    Str(<<"r","g","b","a","(","1"," ",",","2",",","3",",","0",".","5",")">>),
    Str(<<"r","g","b","a","(","1",",","2",",","3",",",".",")">>),
    Null, Undefined, Num(Scale) }

\* the calls of the codec
CodecArgs ==
  {[fn |-> "hexToRgba", hex |-> h, opacity |-> o] : h \in HexArgs, o \in OpacityArgs}
  \cup {[fn |-> "decode", rgba |-> Str(RgbaText(c, a, g)), wellFormed |-> TRUE,
         channels |-> c, alpha |-> a] :
          c \in ChannelArgs, a \in AlphaArgs, g \in GapArgs}
  \cup {[fn |-> "decode", rgba |-> x, wellFormed |-> FALSE] : x \in OtherRgbaArgs}

InitCodec ==
  /\ elements = AllIds
  /\ PanelInit
  /\ ~settings.hasMenuStyles
  /\ typedInputs
  /\ arg \in CodecArgs
  /\ ret = NoCall
  /\ MenuIdle

\* hexToRgba(arg.hex, arg.opacity)
CallHexToRgba ==
  /\ arg.fn = "hexToRgba"
  /\ ret = NoCall
  /\ ret' = [fn |-> "hexToRgba", value |-> hexToRgba(arg.hex, arg.opacity)]
  /\ UNCHANGED <<panelVars, arg, traceVars, menuVars>>

\* rgbaToHex(arg.rgba) and getOpacityFromRgba(arg.rgba), as
\* loadMenuStylesIntoPanel calls them on a slot
CallDecode ==
  /\ arg.fn = "decode"
  /\ ret = NoCall
  /\ ret' = [fn |-> "decode", hex |-> Str(rgbaToHex(arg.rgba)),
             opacity |-> getOpacityFromRgba(arg.rgba)]
  /\ UNCHANGED <<panelVars, arg, traceVars, menuVars>>

\* hexToRgba on what the two decoders returned
CallEncode ==
  /\ ret.fn = "decode"
  /\ ret' = [fn |-> "encode", value |-> hexToRgba(ret.hex, ret.opacity)]
  /\ UNCHANGED <<panelVars, arg, traceVars, menuVars>>

NextCodec ==
  \/ CallHexToRgba
  \/ CallDecode
  \/ CallEncode

SpecCodec == InitCodec /\ [][NextCodec]_vars

-----------------------------------------------------------------------------
(* The panel in a document that lacks some of its controls *)

\* the sets of absent elements: any of the controls of the item background,
\* of the item text colour or of the menu background, with or without the
\* panel and the menu
AbsentSets ==
  LET controls(i) == {PickerId(i), TextId(i)}
                       \cup (IF Slots[i].alpha
                             THEN {SliderId(i), DisplayId(i)} ELSE {})
      slots == {i \in SlotIndex : Slots[i].alpha \/ i \in EditSlots}
  IN {c \cup e : c \in UNION {SUBSET controls(i) : i \in slots},
                 e \in SUBSET {ID_MENU_STYLE_PANEL, ID_MENU}}

InitControls ==
  /\ elements \in {AllIds \ m : m \in AbsentSets}
  /\ PanelInit
  /\ typedInputs
  /\ ~settings.hasMenuStyles \/ DOMAIN settings.menuStyles = {"itemBgColor"}
  /\ MenuIdle
  /\ arg = NoCall
  /\ ret = NoCall

NextControls ==
  \/ HandleMenuStyleButtonClick
  \/ CloseMenuStylePanel
  \/ ApplyMenuStyles
  \/ ResetMenuStyles
  \/ \E i \in AlphaIndex, v \in SliderValues : SliderInput(i, v)

SpecControls == InitControls /\ [][NextControls]_vars

-----------------------------------------------------------------------------
(* The panel on persisted settings with a slot that holds no string *)

\* the values of a slot that are no strings: the number 1, true, null
ForeignValues == {Num(Scale), Bool(TRUE), Null}

InitForeign ==
  /\ elements = AllIds
  /\ settings \in {[hasMenuStyles |-> TRUE,
                    menuStyles |-> [k \in SlotKeys |->
                                      IF k = Slots[i].key THEN v
                                      ELSE DEFAULT_MENU_STYLES[k]]] :
                     i \in SlotIndex, v \in ForeignValues}
  /\ persisted = settings
  /\ mutated = FALSE
  /\ defaults = DEFAULT_MENU_STYLES
  /\ shared = FALSE
  /\ typedInputs \in BOOLEAN
  /\ value = setupColorPickerSync(HtmlValues)
  /\ textContent = [id \in SpanIds |-> <<"0",".","5">>]
  /\ panelDisplay = "none"
  /\ cssVars = [c \in CssNames |-> Undefined]
  /\ last = [op |-> "init"]
  /\ edits = 0
  /\ pc = 0
  /\ log = << >>
  /\ MenuIdle
  /\ arg = NoCall
  /\ ret = NoCall

SpecForeign == InitForeign /\ [][NextControls]_vars

-----------------------------------------------------------------------------
(* The menu: the rocket button, clicks outside, clicks on a quick reply *)

\* a variant of OutsideClickCloses that takes the rocket button for outside
OutsideClickClosesOnButton(target) ==
  /\ menuVisible
  /\ domElements.menu /\ domElements.rocketButton
  /\ target \notin {"menu", "item"}

\* the condition of handleOutsideClick on a click at target: the page, the
\* menu, an item inside the menu, the rocket button or the icon inside it
OutsideClickCloses(target) ==
  /\ menuVisible
  /\ domElements.menu /\ domElements.rocketButton
  /\ target \notin {"menu", "item"}
  /\ target # "rocketButton"
  /\ target \notin {"rocketButton", "rocketIcon"}

\* a variant of HasData that is content with one attribute
HasDataEither(d) == d.setName \/ d.label

\* whether the clicked item has both data-set-name and data-label
HasData(d) == d.setName /\ d.label

\* the user clicks at target, an item carrying the data attributes d: the
\* click reaches the listener of the element clicked, then the document's
Click(target, d) ==
  /\ click.handlers = << >>
  /\ (target = "item" /\ HasData(d)) => pending < MaxPending
  /\ click' = [target |-> target,
               data |-> IF target = "item" THEN d
                        ELSE [setName |-> FALSE, label |-> FALSE],
               handlers |->
                 (IF target \in {"rocketButton", "rocketIcon"}
                     /\ domElements.rocketButton
                  THEN <<"rocket">>
                  ELSE IF target = "item" THEN <<"quickReply">> ELSE << >>)
                 \o <<"outside">>,
               before |-> menuVisible, flips |-> 0, ran |-> "click"]
  /\ UNCHANGED <<panelVars, arg, ret, traceVars, menuVisible, domElements,
                 pending>>

\* the handlers the click has yet to reach and its history, when handler h
\* has run and left the menu visible or not
Handled(h, visible) ==
  [click EXCEPT !.handlers = Tail(@),
                !.flips = IF visible # menuVisible THEN @ + 1 ELSE @,
                !.ran = h]

HandleRocketButtonClick ==
  /\ click.handlers # << >> /\ Head(click.handlers) = "rocket"
  /\ menuVisible' = ~menuVisible
  /\ click' = Handled("rocket", menuVisible')
  /\ UNCHANGED <<panelVars, arg, ret, traceVars, domElements, pending>>

HandleOutsideClick ==
  /\ click.handlers # << >> /\ Head(click.handlers) = "outside"
  /\ menuVisible' = IF OutsideClickCloses(click.target) THEN FALSE
                    ELSE menuVisible
  /\ click' = Handled("outside", menuVisible')
  /\ UNCHANGED <<panelVars, arg, ret, traceVars, domElements, pending>>

\* handleQuickReplyClick up to its await
HandleQuickReplyClick ==
  /\ click.handlers # << >> /\ Head(click.handlers) = "quickReply"
  /\ menuVisible' = FALSE
  /\ pending' = IF HasData(click.data) THEN pending + 1 ELSE pending
  /\ click' = Handled("quickReply", menuVisible')
  /\ UNCHANGED <<panelVars, arg, ret, traceVars, domElements>>

\* a triggerQuickReply resolves or rejects, and the handleQuickReplyClick
\* that awaited it returns
TriggerSettles(rejected) ==
  /\ pending > 0
  /\ pending' = pending - 1
  /\ click' = [click EXCEPT !.ran = IF rejected THEN "rejected" ELSE "resolved"]
  /\ UNCHANGED <<panelVars, arg, ret, traceVars, menuVisible, domElements>>

InitMenu ==
  /\ elements = AllIds
  /\ PanelInit
  /\ typedInputs
  /\ ~settings.hasMenuStyles
  /\ menuVisible = FALSE
  /\ domElements \in [menu : BOOLEAN, rocketButton : BOOLEAN]
  /\ click = [target |-> "none", data |-> [setName |-> FALSE, label |-> FALSE],
              handlers |-> << >>, before |-> FALSE, flips |-> 0,
              ran |-> "none"]
  /\ pending = 0
  /\ arg = NoCall
  /\ ret = NoCall

NextMenu ==
  \/ \E target \in {"page", "menu", "item", "rocketButton", "rocketIcon"},
        d \in [setName : BOOLEAN, label : BOOLEAN] : Click(target, d)
  \/ HandleRocketButtonClick
  \/ HandleOutsideClick
  \/ HandleQuickReplyClick
  \/ \E rejected \in BOOLEAN : TriggerSettles(rejected)

SpecMenu == InitMenu /\ [][NextMenu]_vars

-----------------------------------------------------------------------------
(* applyMenuStyles, statement by statement *)

\* the reads of .value the statements of slot i make, in order: of the text
\* control getColorValue finds, of the picker when that holds no hex colour,
\* of the slider of an alpha slot
ControlsRead(i) ==
  LET textInput == appendText(PickerId(i))
      text == IF textInput \in elements
              THEN <<[ev |-> "read", i |-> i]>> ELSE << >>
      picker == IF /\ PickerId(i) \in elements
                   /\ ~(textInput \in elements /\ IsHex7(value[textInput]))
                THEN <<[ev |-> "read", i |-> i]>> ELSE << >>
      slider == IF Slots[i].alpha /\ SliderId(i) \in elements
                THEN <<[ev |-> "read", i |-> i]>> ELSE << >>
  IN text \o picker \o slider

\* lines 147-150: settings.menuStyles is created when there is none
ApplyEnsureModel ==
  /\ pc = 0
  /\ pc' = 1
  /\ settings' = [hasMenuStyles |-> TRUE,
                  menuStyles |-> IF settings.hasMenuStyles
                                 THEN settings.menuStyles
                                 ELSE DeepCopy(defaults)]
  /\ shared' = SharedAtApply
  /\ log' = IF settings.hasMenuStyles THEN << >>
            ELSE <<[ev |-> "write", i |-> 0]>>
  /\ UNCHANGED <<elements, typedInputs, value, textContent, panelDisplay,
                 cssVars, persisted, mutated, defaults, last, edits,
                 arg, ret, menuVars>>

\* lines 170-183: the controls of slot i are read and slot i is assigned
ApplySlot(i) ==
  /\ pc = i
  /\ pc' = i + 1
  /\ \E stored \in {AppliedValue(i)} :
       settings' = [hasMenuStyles |-> TRUE,
                    menuStyles |->
                      [k \in DOMAIN settings.menuStyles \cup {Slots[i].key} |->
                         IF k = Slots[i].key THEN stored
                         ELSE settings.menuStyles[k]]]
  /\ defaults' = IF shared THEN settings'.menuStyles ELSE defaults
  /\ log' = log \o ControlsRead(i) \o <<[ev |-> "write", i |-> i]>>
  /\ UNCHANGED <<elements, typedInputs, value, textContent, panelDisplay,
                 cssVars, persisted, mutated, shared, last, edits,
                 arg, ret, menuVars>>

\* line 186: delete settings.menuStyles.followTheme
ApplyDeleteLegacy ==
  /\ pc = 8
  /\ pc' = 9
  /\ settings' = [hasMenuStyles |-> TRUE,
                  menuStyles |->
                    [k \in DOMAIN settings.menuStyles \ {"followTheme"} |->
                       settings.menuStyles[k]]]
  /\ defaults' = IF shared THEN settings'.menuStyles ELSE defaults
  /\ log' = IF "followTheme" \in DOMAIN settings.menuStyles
            THEN Append(log, [ev |-> "write", i |-> 0]) ELSE log
  /\ UNCHANGED <<elements, typedInputs, value, textContent, panelDisplay,
                 cssVars, persisted, mutated, shared, last, edits,
                 arg, ret, menuVars>>

\* line 189: updateMenuStylesUI()
ApplyRender ==
  /\ pc = 9
  /\ pc' = 10
  /\ cssVars' = updateMenuStylesUI(settings)
  /\ log' = Append(log, [ev |-> "render", i |-> 0])
  /\ UNCHANGED <<settings, elements, typedInputs, value, textContent,
                 panelDisplay, persisted, mutated, defaults, shared, last,
                 edits, arg, ret, menuVars>>

\* line 192: closeMenuStylePanel(), and the handler returns
ApplyClose ==
  /\ pc = 10
  /\ pc' = 0
  /\ panelDisplay' = closeMenuStylePanel
  /\ log' = Append(log, [ev |-> "close", i |-> 0])
  /\ mutated' = TRUE
  /\ last' = [op |-> "apply", again |-> FALSE]
  /\ UNCHANGED <<settings, elements, typedInputs, value, textContent,
                 cssVars, persisted, defaults, shared, edits,
                 arg, ret, menuVars>>

\* the handlers run to completion: another one starts only when
\* applyMenuStyles has returned
NextApply ==
  \/ pc = 0 /\ HandleMenuStyleButtonClick
  \/ pc = 0 /\ \E i \in EditSlots, c \in PickerColors : PickerInput(i, c)
  \/ pc = 0 /\ \E i \in AlphaIndex \cap EditSlots, v \in SliderValues :
                 SliderInput(i, v)
  \/ ApplyEnsureModel
  \/ \E i \in SlotIndex : ApplySlot(i)
  \/ ApplyDeleteLegacy
  \/ ApplyRender
  \/ ApplyClose

SpecApply == Init /\ [][NextApply]_vars

-----------------------------------------------------------------------------
(* Properties of the picker <-> text synchronisation *)

PickerOf(i) == value[PickerId(i)]
TextOf(i) == value[TextId(i)]

\* the text s trimmed and given its leading '#'
HashForm(s) == LET v == trim(s) IN IF startsWithHash(v) THEN v ELSE <<"#">> \o v

\* the normalized value of the text s: '#'-prefixed and upper-case
Normalized(s) == toUpperCase(HashForm(s))

\* whether the trimmed text s matches ^#?[0-9A-F]{6}$, case-insensitively
ValidText(s) == IsHexLoose(trim(s))

\* whether the text control and the picker of pair i denote the same colour
SameColor(i) == Normalized(TextOf(i)) = toUpperCase(PickerOf(i))

\* C1: for every bound picker/text pair, right after a text-commit event the
\* text control equals the picker's value upper-cased; a commit of an invalid
\* text leaves the picker as it was and puts the picker's value, upper-cased,
\* in the text control; and in every reachable state in which the two
\* controls denote different colours the trimmed text is no 6-digit hex.
C1_CommitConsistent ==
  /\ [](\A i \in SlotIndex :
          (Bound(i) /\ last.op = "textChange" /\ last.i = i)
            => TextOf(i) = toUpperCase(PickerOf(i)))
  /\ [](\A i \in SlotIndex :
          (Bound(i) /\ ~SameColor(i)) => ~ValidText(TextOf(i)))
  /\ [][\A i \in EditSlots :
          (TextChange(i) /\ ~ValidText(TextOf(i)))
            => /\ value'[PickerId(i)] = PickerOf(i)
               /\ value'[TextId(i)] = toUpperCase(PickerOf(i))]_vars

\* an invalid text has been typed and then committed: the text control shows
\* the picker's value again
C1_Witness ==
  /\ last.op = "textChange"
  /\ ~last.valid
  /\ edits = 1
  /\ Bound(last.i)
  /\ TextOf(last.i) = toUpperCase(PickerOf(last.i))

\* C2 (as amended): on a text-control input event whose trimmed value is a
\* 6-hex-digit string, with or without '#', the text control is set to the
\* normalized value ('#'-prefixed, upper-case) and the picker to the
\* '#'-prefixed string in the letter case typed or in lower case: the same
\* colour as the normalized value, not the same string.
C2_TextInputPushes ==
  (last.op = "textInput" /\ Bound(last.i) /\ ValidText(last.typed))
    => /\ TextOf(last.i) = Normalized(last.typed)
       /\ PickerOf(last.i) \in {HashForm(last.typed),
                                toLowerCase(HashForm(last.typed))}
       /\ toUpperCase(PickerOf(last.i)) = Normalized(last.typed)

\* C2 as claimed: the picker and the text control both hold the normalized
\* value.
C2_AsClaimed ==
  (last.op = "textInput" /\ Bound(last.i) /\ ValidText(last.typed))
    => /\ TextOf(last.i) = Normalized(last.typed)
       /\ PickerOf(last.i) = Normalized(last.typed)

\* six digits without '#' have been typed in a bound text control
C2_Witness ==
  /\ last.op = "textInput"
  /\ Bound(last.i)
  /\ last.typed = <<"f","f","0","0","f","f">>
  /\ TextOf(last.i) = <<"#","F","F","0","0","F","F">>
  /\ PickerOf(last.i) = <<"#","f","f","0","0","f","f">>

-----------------------------------------------------------------------------
(* Properties of applyMenuStyles, resetMenuStyles and the live variables *)

\* the colour the text control of slot i holds when it holds one, the
\* picker's value otherwise
TextPreferredHex(i) ==
  IF TextId(i) \in elements /\ IsHex7(TextOf(i))
  THEN Str(TextOf(i))
  ELSE safeGetValue(PickerId(i), Null)

\* C3 as claimed: applyMenuStyles sets each alpha-bearing slot to
\* hexToRgba(hex, opacity), hex being the text control's value when that is a
\* valid colour and the picker's value otherwise, opacity the slider's value.
C3_AsClaimed ==
  last.op = "apply"
    => \A i \in AlphaIndex :
         settings.menuStyles[Slots[i].key]
           = hexToRgba(TextPreferredHex(i), safeGetValue(SliderId(i), Slots[i].op))

\* C4 (as amended): after applyMenuStyles or resetMenuStyles, provided the
\* document holds the menu root element, each of the seven live style
\* variables equals the string the model holds for its slot.
C4_LiveVariablesRendered ==
  (last.op \in {"apply", "reset"} /\ ID_MENU \in elements)
    => \A i \in SlotIndex :
         cssVars[Slots[i].css] = settings.menuStyles[Slots[i].key]

\* C4 as claimed: the same, whatever the document holds.
C4_AsClaimed ==
  last.op \in {"apply", "reset"}
    => \A i \in SlotIndex :
         cssVars[Slots[i].css] = settings.menuStyles[Slots[i].key]

RGBA_255_0_255_09 == <<"r","g","b","a","(","2","5","5",","," ","0",","," ",
                       "2","5","5",","," ","0",".","9",")">>

\* 'ff00ff' typed, the slider at 0.9, apply: the live variable of the item
\* background holds the encoded colour
C4_Witness ==
  /\ last.op = "apply"
  /\ ID_MENU \in elements
  /\ edits = 1
  /\ settings.menuStyles["itemBgColor"] = Str(RGBA_255_0_255_09)
  /\ cssVars["--qr-item-bg-color"] = Str(RGBA_255_0_255_09)

\* C5: in every state reached after applyMenuStyles or resetMenuStyles has
\* run, whatever menuStyles was persisted, the model has no followTheme key.
C5_NoLegacyKeyAfterMutation ==
  mutated => /\ settings.hasMenuStyles
             /\ "followTheme" \notin DOMAIN settings.menuStyles

\* applyMenuStyles has run on a model that was persisted with the legacy key
C5_Witness ==
  /\ mutated
  /\ last.op = "apply"
  /\ persisted.hasMenuStyles
  /\ "followTheme" \in DOMAIN persisted.menuStyles

\* whether v is rgba(r,g,b,a) with integer channels in [0, 255], written
\* without leading zeros, and a in [0, 1]
WellFormedRgba(v) ==
  /\ IsStr(v)
  /\ LET m == RgbaMatch(v.s)
     IN /\ m.ok
        /\ Len(m.caps) = 4
        /\ \A k \in 1..3 : DecValue(m.caps[k]) <= 255
        /\ StringToNumber(m.caps[4]).t = "number"
        /\ StringToNumber(m.caps[4]).n \in 0..Scale
        /\ \E g \in GapArgs :
             v.s = RgbaText(<<DecValue(m.caps[1]), DecValue(m.caps[2]),
                              DecValue(m.caps[3])>>, m.caps[4], g)

\* C6 (as amended): in every state reached after applyMenuStyles or
\* resetMenuStyles has run, the alpha-bearing slots itemBgColor and
\* menuBgColor each hold a well-formed rgba(r,g,b,a) string, never a bare hex
\* string, whatever the controls held and whichever were missing.
C6_AlphaSlotsEncodedAfterMutation ==
  mutated => \A i \in AlphaIndex :
               /\ settings.hasMenuStyles
               /\ Slots[i].key \in DOMAIN settings.menuStyles
               /\ WellFormedRgba(settings.menuStyles[Slots[i].key])

\* C6 as claimed: the same in every reachable state.
C6_AsClaimed ==
  \A i \in AlphaIndex :
    /\ settings.hasMenuStyles
    /\ Slots[i].key \in DOMAIN settings.menuStyles
    /\ WellFormedRgba(settings.menuStyles[Slots[i].key])

\* applyMenuStyles has run on a model persisted with a bare hex string in an
\* alpha-bearing slot, in a document without the slot's picker
C6_Witness ==
  /\ mutated
  /\ last.op = "apply"
  /\ PickerId(1) \notin elements
  /\ persisted.hasMenuStyles
  /\ "itemBgColor" \in DOMAIN persisted.menuStyles
  /\ ~WellFormedRgba(persisted.menuStyles["itemBgColor"])
  /\ WellFormedRgba(settings.menuStyles["itemBgColor"])

-----------------------------------------------------------------------------
(* Properties of the colour codec *)

\* C7: for every well-formed rgba(r,g,b,a) input x with integer channels in
\* [0, 255] and a in [0, 1], hexToRgba(rgbaToHex(x), getOpacityFromRgba(x)) is
\* the rgba string of the same three channels and of the number a.
C7_RoundTrip ==
  (ret.fn = "encode" /\ arg.fn = "decode" /\ arg.wellFormed)
    => ret.value = Str(RgbaText(arg.channels,
                                NumberToString(StringToNumber(arg.alpha).n),
                                <<" ">>))

\* the round trip of rgba(10,20,30,0.5)
C7_Witness ==
  /\ ret.fn = "encode"
  /\ arg.fn = "decode"
  /\ arg.wellFormed
  /\ arg.rgba = Str(RGBA_10_20_30_05)
  /\ ret.value = Str(<<"r","g","b","a","(","1","0",","," ","2","0",","," ",
                       "3","0",","," ","0",".","5",")">>)

\* C8: for every hex argument that does not match ^#[0-9A-F]{6}$,
\* case-insensitively, hexToRgba returns the rgba string of the channels 60,
\* 60, 60 with the resolved opacity, and raises nothing.
C8_FallbackColour ==
  (ret.fn = "hexToRgba" /\ ~TestHex7(arg.hex))
    => ret.value = Str(<<"r","g","b","a","(","6","0",","," ","6","0",","," ",
                         "6","0",","," ">>
                       \o JSToString(ValidOpacity(arg.opacity)) \o <<")">>)

\* hexToRgba has been called on six digits without '#'
C8_Witness ==
  /\ ret.fn = "hexToRgba"
  /\ arg.hex = Str(<<"f","f","0","0","f","f">>)
  /\ arg.opacity = Str(<<"0",".","9">>)
  /\ ret.value = Str(<<"r","g","b","a","(","6","0",","," ","6","0",","," ",
                       "6","0",","," ","0",".","9",")">>)

\* whether the opacity v is numeric: a number, or a string that holds one
\* (null, undefined, NaN, the empty string and white space hold none)
NumericOpacity(v) ==
  \/ v.t = "number"
  \/ v.t = "string" /\ Len(trim(v.s)) > 0 /\ StringToNumber(v.s).t = "number"

\* whether the opacity v is numeric and within [0, 1]
InUnitRange(v) == NumericOpacity(v) /\ ToNumber(v).n \in 0..Scale

\* C9 as claimed: hexToRgba uses 0.7 as the alpha of its result for every
\* opacity that is not numeric or is outside [0, 1], and the opacity itself,
\* verbatim, for every opacity within [0, 1].
C9_AsClaimed ==
  ret.fn = "hexToRgba"
    => ret.value = RgbaString(ValidHex(arg.hex),
                              IF InUnitRange(arg.opacity) THEN arg.opacity
                              ELSE Opacity07)

-----------------------------------------------------------------------------
(* Properties of loadMenuStylesIntoPanel *)

\* what the form shows for the encoded colours that are persisted, as upper-
\* case hex and as the slider's text
ShownFor(v) ==
  CASE v = Str(RGBA_10_20_30_05) ->
         [hex |-> <<"#","0","A","1","4","1","E">>, opacity |-> <<"0",".","5">>]
    [] v = Str(<<"#","0","A","1","4","1","E">>) ->
         [hex |-> <<"#","0","A","1","4","1","E">>, opacity |-> <<"1">>]
    [] v = Str(<<"r","g","b","(","1",","," ","2",","," ","3",")">>) ->
         [hex |-> <<"#","0","1","0","2","0","3">>, opacity |-> <<"1">>]
    [] v = DEFAULT_MENU_STYLES["itemBgColor"] ->
         [hex |-> <<"#","3","C","3","C","3","C">>, opacity |-> <<"0",".","7">>]
    [] v = DEFAULT_MENU_STYLES["menuBgColor"] ->
         [hex |-> HEX_000000, opacity |-> <<"0",".","8","5">>]

\* what the form shows for alpha-bearing slot i when the slot is absent
ShownForAbsent(i) ==
  [hex |-> toUpperCase(Slots[i].hex), opacity |-> NumberToString(Slots[i].op.n)]

\* what the form is to show for alpha-bearing slot i of the persisted model
Shown(i) ==
  IF persisted.hasMenuStyles /\ Slots[i].key \in DOMAIN persisted.menuStyles
  THEN ShownFor(persisted.menuStyles[Slots[i].key])
  ELSE ShownForAbsent(i)

\* C10 (as amended): opening the panel leaves the model as it was persisted:
\* persisted slots are kept and absent slots stay absent. The form shows, for
\* an alpha-bearing slot, the decoded colour in the picker (upper-case hex up
\* to letter case) and in the text control (upper-case hex) and the decoded
\* opacity in the slider and its display; for an absent slot it shows the
\* slot's default (persisted itemBgColor "rgba(10,20,30,0.5)" gives the colour
\* #0A141E and the slider 0.5).
C10_OpenShowsPersisted ==
  (last.op = "open" /\ ~mutated /\ ID_MENU_STYLE_PANEL \in elements)
    => /\ settings = persisted
       /\ \A i \in AlphaIndex :
            /\ PickerId(i) \in elements
                 => toUpperCase(PickerOf(i)) = Shown(i).hex
            /\ TextId(i) \in elements => TextOf(i) = Shown(i).hex
            /\ SliderId(i) \in elements => value[SliderId(i)] = Shown(i).opacity
            /\ DisplayId(i) \in elements
                 => textContent[DisplayId(i)] = Shown(i).opacity

\* C10 as claimed: after opening the panel the model holds all seven slots,
\* the persisted ones as persisted and the absent ones at their defaults,
\* and the picker of an alpha-bearing slot holds the decoded upper-case hex.
C10_AsClaimed ==
  (last.op = "open" /\ ~mutated /\ ID_MENU_STYLE_PANEL \in elements)
    => /\ settings.hasMenuStyles
       /\ \A i \in SlotIndex :
            /\ Slots[i].key \in DOMAIN settings.menuStyles
            /\ settings.menuStyles[Slots[i].key]
                 = IF persisted.hasMenuStyles
                      /\ Slots[i].key \in DOMAIN persisted.menuStyles
                   THEN persisted.menuStyles[Slots[i].key]
                   ELSE DEFAULT_MENU_STYLES[Slots[i].key]
       /\ \A i \in AlphaIndex :
            /\ PickerId(i) \in elements => PickerOf(i) = Shown(i).hex
            /\ SliderId(i) \in elements => value[SliderId(i)] = Shown(i).opacity

\* the panel has been opened on a model persisted with itemBgColor only
C10_Witness ==
  /\ last.op = "open"
  /\ ~mutated
  /\ elements = AllIds
  /\ persisted.hasMenuStyles
  /\ DOMAIN persisted.menuStyles = {"itemBgColor"}
  /\ DOMAIN settings.menuStyles = {"itemBgColor"}
  /\ TextOf(1) = <<"#","0","A","1","4","1","E">>
  /\ value[SliderId(1)] = <<"0",".","5">>

-----------------------------------------------------------------------------
(* Properties of the defaults constant and of what changes the model *)

\* C11: resetMenuStyles leaves the model equal, slot by slot, to the compiled
\* defaults while the model is never the constant's own object; through
\* every sequence of open, apply, reset and close, with or without a
\* persisted menuStyles, the contents of DEFAULT_MENU_STYLES stay as compiled.
C11_DefaultsNeverChange ==
  /\ defaults = DEFAULT_MENU_STYLES
  /\ ~shared
  /\ last.op = "reset" => /\ settings.hasMenuStyles
                          /\ settings.menuStyles = DEFAULT_MENU_STYLES

\* applyMenuStyles has run on settings without menuStyles: it has copied the
\* defaults and written slots that differ from them
C11_Witness ==
  /\ last.op = "apply"
  /\ ~persisted.hasMenuStyles
  /\ settings.menuStyles # DEFAULT_MENU_STYLES
  /\ defaults = DEFAULT_MENU_STYLES

\* C12: only applyMenuStyles and resetMenuStyles change the style model:
\* every step that changes settings.menuStyles (its presence or its contents)
\* is one of the two, so opening and closing the panel, rendering and every
\* picker, text and slider event leave it as it is, absent included.
C12_OnlyApplyAndResetWrite ==
  [][settings' # settings => last'.op \in {"apply", "reset"}]_vars

\* the panel has been opened on settings without menuStyles, a colour edited
\* and the panel closed: menuStyles is still absent
C12_Witness ==
  /\ last.op = "close"
  /\ edits = 1
  /\ ~mutated
  /\ ~persisted.hasMenuStyles
  /\ ~settings.hasMenuStyles

-----------------------------------------------------------------------------
(* Properties of the order of the statements of applyMenuStyles *)

\* the positions of log that hold an event of kind ev
LogAt(ev) == {n \in DOMAIN log : log[n].ev = ev}

\* whether every event of kind a comes before every event of kind b
Before(a, b) == \A m \in LogAt(a), n \in LogAt(b) : m < n

\* whether applyMenuStyles has just returned
Returned == pc = 0 /\ last.op = "apply"

\* C13: within one applyMenuStyles invocation the controls of a slot are
\* read before that slot is assigned, every read and every assignment to the
\* model comes before the live render, the render comes before the panel is
\* closed, and when the invocation returns it has rendered once, closed once,
\* stored in every slot the value its controls give, and the panel is hidden.
C13_ReadWriteRenderClose ==
  /\ \A m \in LogAt("write"), n \in LogAt("read") : log[m].i = log[n].i => n < m
  /\ Before("read", "render")
  /\ Before("write", "render")
  /\ Before("render", "close")
  /\ Returned =>
       /\ Cardinality(LogAt("render")) = 1
       /\ Cardinality(LogAt("close")) = 1
       /\ \A i \in SlotIndex :
            /\ settings.menuStyles[Slots[i].key] = AppliedValue(i)
            /\ \E m \in LogAt("write") : log[m].i = i
       /\ panelDisplay = "none"

\* an invocation on a visible panel with every control present has returned
C13_Witness ==
  /\ Returned
  /\ elements = AllIds
  /\ Cardinality(LogAt("read")) >= Len(Slots)
  /\ edits = 1

\* C13 as the claim has it: every read of a control before any mutation of
\* the model
C13_AsClaimed ==
  /\ Before("read", "write")
  /\ Before("write", "render")
  /\ Before("render", "close")
  /\ Returned => panelDisplay = "none"

-----------------------------------------------------------------------------
(* Properties of reopening the panel and of the opacity displays *)

\* the colour and the opacity of slot i in the model as it stands, in the
\* form of the text control and of the opacity display
SlotShown(i) ==
  LET v == Get(IF settings.hasMenuStyles THEN settings.menuStyles
               ELSE DEFAULT_MENU_STYLES, Slots[i].key)
  IN [hex |-> toUpperCase(IF ~Truthy(v) THEN Slots[i].hex
                          ELSE IF Slots[i].alpha THEN rgbaToHex(v)
                          ELSE v.s),
      opacity |-> JSToString(IF Truthy(v) THEN getOpacityFromRgba(v)
                             ELSE Slots[i].op)]

\* C14: whatever was edited and not applied before, when the panel has been
\* opened every control present shows the value of its slot in the model:
\* the picker the slot's hex (up to letter case), the text control the hex
\* in upper case, the slider and its display the slot's opacity.
C14_ReopenShowsModel ==
  (last.op = "open" /\ ID_MENU_STYLE_PANEL \in elements) =>
    \A i \in SlotIndex :
      /\ PickerId(i) \in elements
           => toUpperCase(PickerOf(i)) = SlotShown(i).hex
      /\ TextId(i) \in elements => TextOf(i) = SlotShown(i).hex
      /\ (Slots[i].alpha /\ SliderId(i) \in elements)
           => value[SliderId(i)] = SlotShown(i).opacity
      /\ (Slots[i].alpha /\ DisplayId(i) \in elements)
           => textContent[DisplayId(i)] = SlotShown(i).opacity

\* the panel has been reopened after an edit that was never applied, and
\* shows the persisted item background, not the edit
C14_Witness ==
  /\ last.op = "open"
  /\ edits = 1
  /\ ~mutated
  /\ elements = AllIds
  /\ settings.hasMenuStyles
  /\ settings.menuStyles["itemBgColor"] = Str(RGBA_10_20_30_05)
  /\ TextOf(1) = <<"#","0","A","1","4","1","E">>
  /\ value[SliderId(1)] = <<"0",".","5">>

\* C15: for both opacity controls, once the panel has been loaded (opened or
\* reset) or the slider moved, the display's text equals the slider's value,
\* whenever both elements exist.
C15_DisplayMirrorsSlider ==
  (panelDisplay = "block" \/ last.op \in {"reset", "sliderInput"}) =>
    \A i \in AlphaIndex :
      (SliderId(i) \in elements /\ DisplayId(i) \in elements)
        => textContent[DisplayId(i)] = value[SliderId(i)]

\* the menu opacity slider has been moved, the item opacity still shows the
\* loaded default
C15_Witness ==
  /\ last.op = "sliderInput"
  /\ last.i = 6
  /\ elements = AllIds
  /\ textContent[DisplayId(6)] = <<"0",".","9">>
  /\ value[SliderId(6)] = <<"0",".","9">>
  /\ textContent[DisplayId(1)] = <<"0",".","7">>
  /\ value[SliderId(1)] = <<"0",".","7">>

-----------------------------------------------------------------------------
(* Properties of the panel when controls are absent *)

\* "rgba(60, 60, 60, 0.85)"
RGBA_60_60_60_085 ==
  <<"r","g","b","a","(","6","0",","," ","6","0",","," ","6","0",","," ",
    "0",".","8","5",")">>

\* whether applyMenuStyles finds no colour for slot i: getColorValue looks
\* for the text control under an id no element has, and there is no picker
NoColour(i) == PickerId(i) \notin elements

-----------------------------------------------------------------------------
(* Properties of loading a slot that holds no string *)

\* C17: when the persisted model holds a value that is no string in one of
\* the seven slots, opening the panel raises nothing, shows the panel, and
\* the controls of that slot show the slot's compiled default.
C17_AsClaimed ==
  (last.op = "open" /\ ~mutated) =>
    /\ ~last.threw
    /\ panelDisplay = "block"
    /\ \A i \in SlotIndex :
         ~IsStr(persisted.menuStyles[Slots[i].key])
           => /\ TextOf(i) = toUpperCase(Slots[i].hex)
              /\ toUpperCase(PickerOf(i)) = toUpperCase(Slots[i].hex)
              /\ Slots[i].alpha
                   => /\ value[SliderId(i)] = NumberToString(Slots[i].op.n)
                      /\ textContent[DisplayId(i)] = NumberToString(Slots[i].op.n)

-----------------------------------------------------------------------------
(* Properties of the menu's visibility *)

\* C18: handleQuickReplyClick leaves the menu not visible whether or not the
\* item carries its data attributes; it calls triggerQuickReply only when
\* both attributes are present, and with the menu already closed; and when
\* the pending call resolves or rejects the visibility stays as it is.
C18_QuickReplyClosesThenTriggers ==
  /\ [](click.ran = "quickReply" => ~menuVisible)
  /\ [][pending' > pending
          => /\ click.data.setName /\ click.data.label
             /\ ~menuVisible']_vars
  /\ [][pending' < pending => menuVisible' = menuVisible]_vars

\* the menu was reopened while a trigger was in flight, the trigger was
\* rejected and the menu is open
C18_Witness ==
  /\ click.ran = "rejected"
  /\ click.target \in {"rocketButton", "rocketIcon"}
  /\ click.handlers = << >>
  /\ menuVisible

\* C19: when a click on the rocket button (or inside it) has gone through
\* handleRocketButtonClick and handleOutsideClick, menuVisible has changed
\* exactly once and is the opposite of what the click found; and
\* handleOutsideClick changes the visibility only from visible to not
\* visible, on a target that is neither the menu or inside it nor the rocket
\* button or inside it.
C19_RocketClickFlipsOnce ==
  /\ []((/\ click.handlers = << >>
         /\ click.target \in {"rocketButton", "rocketIcon"}
         /\ domElements.rocketButton)
          => (click.flips = 1 /\ menuVisible = ~click.before))
  /\ [][(click'.ran = "outside" /\ click.handlers # << >>
           /\ menuVisible' # menuVisible)
          => /\ menuVisible /\ ~menuVisible'
             /\ click.target \notin {"menu", "item", "rocketButton",
                                     "rocketIcon"}]_vars

\* a click on the icon inside the rocket button has closed the open menu
C19_Witness ==
  /\ click.target = "rocketIcon"
  /\ click.handlers = << >>
  /\ click.ran = "outside"
  /\ click.before
  /\ ~menuVisible
  /\ domElements.menu /\ domElements.rocketButton

-----------------------------------------------------------------------------
(* Properties of applying twice *)

\* C20: with every control present, when applyMenuStyles has run, the panel
\* has been opened and applyMenuStyles runs again with no edit in between,
\* each of the seven slots holds the very string it held before.
C20_ApplyTwiceFixpoint ==
  [][(/\ last.op = "open" /\ last.applied
      /\ elements = AllIds
      /\ last'.op = "apply")
       => \A i \in SlotIndex :
            settings'.menuStyles[Slots[i].key] = settings.menuStyles[Slots[i].key]]_vars

\* applyMenuStyles has run again after a reopening, on a model that holds a
\* colour the user picked for the item text
C20_Witness ==
  /\ last.op = "apply"
  /\ last.again
  /\ elements = AllIds
  /\ edits = 1
  /\ toUpperCase(settings.menuStyles["itemTextColor"].s)
       = <<"#","F","F","0","0","F","F">>

=============================================================================
